---- MODULE Spec2Model ----
\* LGNS dashboard (App.tsx, services/blockchainService.ts, services/ocrosService.ts):
\* a scan reads the contract's events from a Polygon node in chunks, keeps the
\* maximum amount per account, filters by a threshold, looks the rewards of the
\* remaining accounts up in batches and commits the merged records to `data`.
\* unnamed/part_000 is an earlier variant of App.tsx with its own processLogs;
\* the variable `variant` says which of the two components is mounted.
EXTENDS Integers, Sequences, FiniteSets, TLC

\* ---------------------------------------------------------------- constants
CONTRACT_ADDRESS == "0x806fdab92b0fc7fbe4bbbe5117a54caa9283d5a4"
DEFAULT_POLYGON_RPC == "https://pol79729.allnodes.me:8545/fiBUP22lpmCFIeuv"
LGNS_PRECISION == 8
DEFAULT_BLOCKS_RANGE == 21600
DEFAULT_MIN_THRESHOLD == 40
DEFAULT_SCAN_CHUNK == 1000
CONCURRENCY == 8
\* const CONCURRENCY = 10 of the processLogs of part_000
CONCURRENCY_000 == 10

\* ------------------------------------------------------------------- bounds
\* number of scans (calls of processLogs) a behaviour may start
MaxScans == 2
\* further scans a behaviour may start, one after the other, on the chain of a
\* single event
ExtraScans == 1
\* largest block window / chunk size / chain height drawn for the range-query inputs
MaxWindow == 5
MaxChunk == 3
MaxHeight == 5
\* longest event sequence drawn for the merge inputs
MaxEvents == 3
\* number of accounts above CONCURRENCY in the long chain (forces a second batch)
ExtraAccounts == 1
\* a fetch is followed for at most this number of range queries beyond the
\* number of blocks of its window
ExtraQueries == 1

\* ------------------------------------------------------------------- state
VARIABLES
  variant,        \* the mounted component: "App.tsx" or "part_000"
  chain,          \* the node: chain[b] = the raw logs of block b (1..height)
  ocros,          \* the reward service: the response it gives for an account
  localStorage,   \* the persisted settings
  rpcUrl, blockRange, threshold, scanChunkSize,
  data, loading, loadingStage, rewardProgress, error, aiAnalysis, isAnalyzing,
  sortConfig,     \* the sort state of the table: [key, direction]
  searchAddress,  \* the search box
  scans,          \* scans[s]: the locals of the s-th call of processLogs
  started         \* number of calls of processLogs so far

envVars == <<variant, chain, ocros, localStorage>>
settingVars == <<rpcUrl, blockRange, threshold, scanChunkSize>>
viewVars == <<data, loading, loadingStage, rewardProgress, error, aiAnalysis, isAnalyzing>>
tableVars == <<sortConfig, searchAddress>>
vars == <<variant, chain, ocros, localStorage, rpcUrl, blockRange, threshold, scanChunkSize,
          data, loading, loadingStage, rewardProgress, error, aiAnalysis,
          isAnalyzing, sortConfig, searchAddress, scans, started>>

ScanIds == 1..(MaxScans + ExtraScans)

\* the locals of a call of processLogs that has not been made yet
IdleScan ==
  [pc |-> "idle", blockRange |-> 0, threshold |-> 0, scanChunkSize |-> 0,
   latestBlock |-> 0, currentFrom |-> 0, currentTo |-> 0, allEvents |-> <<>>,
   queries |-> <<>>, skipped |-> 0, logs |-> <<>>, rawAddressMap |-> <<>>,
   filteredAddresses |-> <<>>, i |-> 0, pending |-> {}, results |-> <<>>,
   mergedResults |-> <<>>, lookups |-> <<>>, batches |-> 0, narrations |-> 0,
   narration |-> "", outcomes |-> <<>>, fetches |-> 0,
   fetchFailed |-> FALSE, committed |-> FALSE]

\* ------------------------------------------------------------ JS primitives
\* null / undefined of a string-valued state (error)
Null == "<null>"
\* NaN of a number-valued local (parseInt of a missing result): a value that no
\* arithmetic of the model reaches
NaN == -999999

Min(a, b) == IF a < b THEN a ELSE b
Max(a, b) == IF a > b THEN a ELSE b

RECURSIVE Pow(_, _)
Pow(b, e) == IF e = 0 THEN 1 ELSE b * Pow(b, e - 1)

\* a < b on numbers: false if an operand is NaN
Less(a, b) == a # NaN /\ b # NaN /\ a < b

\* String.prototype.toLowerCase on the address strings of the model
toLowerCase(s) ==
  CASE s = "0xA1" -> "0xa1"
    [] s = "0xB2" -> "0xb2"
    [] s = "0x806FDAB92B0FC7FBE4BBBE5117A54CAA9283D5A4" -> CONTRACT_ADDRESS
    [] OTHER -> s

\* Number.prototype.toString(radix): the digits of a non-negative integer
\* (a negative number above -radix is its one digit with the sign)
RECURSIVE toStringRadix(_, _)
toStringRadix(n, radix) ==
  IF n < radix THEN <<n>>
  ELSE Append(toStringRadix(n \div radix, radix), n % radix)

\* parseInt(digits, radix): NaN for a missing (empty) digit string
RECURSIVE parseIntRadix(_, _)
parseIntRadix(str, radix) ==
  IF Len(str) = 0 THEN NaN
  ELSE IF Len(str) = 1 THEN str[1]
  ELSE parseIntRadix(SubSeq(str, 1, Len(str) - 1), radix) * radix + str[Len(str)]

\* Number(localStorage.getItem(key)) || dflt : null and "" give 0, 0 is falsy
NumberOr(str, dflt) ==
  LET n == IF Len(str) = 0 THEN 0 ELSE parseIntRadix(str, 10)
  IN IF n = 0 THEN dflt ELSE n

RECURSIVE SeqSum(_)
SeqSum(s) == IF Len(s) = 0 THEN 0 ELSE s[1] + SeqSum(Tail(s))

RECURSIVE Flatten(_)
Flatten(ss) == IF Len(ss) = 0 THEN <<>> ELSE ss[1] \o Flatten(Tail(ss))

Range(s) == {s[k] : k \in 1..Len(s)}

\* --------------------------------------------------- blockchainService.ts
\* Math.pow(10, LGNS_PRECISION)
Scale == Pow(10, LGNS_PRECISION)

\* The integer of a log's data field is held as two limbs, data = hi * Scale + lo
\* with 0 <= lo < Scale, and an amount as the exact decimal whole + frac / Scale.
\* Number(bigIntVal) / Math.pow(10, LGNS_PRECISION)
decodeAmount(d) == [whole |-> d.hi, frac |-> d.lo]

\* a > b and a >= t on amounts (t an integer)
amountGT(a, b) == a.whole > b.whole \/ (a.whole = b.whole /\ a.frac > b.frac)
amountGE(a, t) == a.whole >= t
ZeroAmount == [whole |-> 0, frac |-> 0]

\* Array.prototype.sort (stable) with a comparator on numbers: the elements of
\* s in descending or ascending order of their values vals (vals[i] that of
\* s[i]); elements of equal value keep their order
stableSort(s, vals, descending) ==
  LET precedes(i, j) == IF descending THEN amountGT(vals[i], vals[j])
                        ELSE amountGT(vals[j], vals[i])
      rank == [i \in 1..Len(s) |->
                 Cardinality({j \in 1..Len(s) :
                    \/ precedes(j, i)
                    \/ (~precedes(i, j) /\ j < i)})]
  IN [r \in 1..Len(s) |-> s[CHOOSE i \in 1..Len(s) : rank[i] = r - 1]]

\* one decoded log (the callback of logsJson.result.map)
decodeLog(log) ==
  [address |-> toLowerCase(log.address),
   amount |-> decodeAmount(log.data),
   blockNumber |-> parseIntRadix(log.blockNumber, 16),
   transactionHash |-> log.transactionHash]

RECURSIVE decodeLogs(_)
decodeLogs(result) ==
  IF Len(result) = 0 THEN <<>> ELSE <<decodeLog(result[1])>> \o decodeLogs(Tail(result))

\* const startBlock = Math.max(0, latestBlock - totalBlockCount)
startBlockOf(latestBlock, totalBlockCount) ==
  IF latestBlock = NaN THEN NaN ELSE Max(0, latestBlock - totalBlockCount)

\* the loop condition of the range loop: currentFrom < latestBlock
rangeLoopCond(currentFrom, latestBlock) == Less(currentFrom, latestBlock)

\* (mutant: the range ends where the next one starts)
currentToOfOverlap(currentFrom, chunkSize, latestBlock) == Min(currentFrom + chunkSize, latestBlock)

\* const currentTo = Math.min(currentFrom + chunkSize - 1, latestBlock)
currentToOf(currentFrom, chunkSize, latestBlock) == Min(currentFrom + chunkSize - 1, latestBlock)

\* what the loop does with the parsed body of one eth_getLogs response:
\* "skip" (continue), "throw" (leaves the loop through the catch) or "append"
rangeOutcome(kind) ==
  CASE kind = "error" -> "skip"
    [] kind = "result" -> "append"
    [] OTHER -> "throw"

\* ---------------------------------------------------------- ocrosService.ts
ZeroReward == [level |-> 0, reward |-> 0]

\* the body of the try block of fetchRewards: the value it returns, or a throw
fetchRewardsTry(resp) ==
  IF resp.kind = "transport" THEN [threw |-> TRUE, value |-> ZeroReward]
  ELSE IF ~resp.ok THEN
    IF resp.status = 404 THEN [threw |-> FALSE, value |-> ZeroReward]
    ELSE [threw |-> TRUE, value |-> ZeroReward]
  ELSE IF resp.kind = "unparsable" THEN [threw |-> TRUE, value |-> ZeroReward]
  ELSE IF resp.kind = "array" /\ Len(resp.body) > 0 THEN
    IF resp.body[1].isNull THEN [threw |-> TRUE, value |-> ZeroReward]
    ELSE [threw |-> FALSE,
          value |-> [level |-> resp.body[1].level, reward |-> resp.body[1].reward]]
  ELSE [threw |-> FALSE, value |-> ZeroReward]

\* (mutant: the catch block rethrows)
fetchRewardsRethrow(r) ==
  IF r.threw THEN [status |-> "rejected", value |-> ZeroReward]
  ELSE [status |-> "fulfilled", value |-> r.value]

\* what the catch block of fetchRewards makes of a throw
fetchRewardsCatch(r) ==
  IF r.threw THEN [status |-> "fulfilled", value |-> ZeroReward]
  ELSE [status |-> "fulfilled", value |-> r.value]

\* fetchRewards: the promise it returns, once settled
fetchRewards(resp) == fetchRewardsCatch(fetchRewardsTry(resp))

\* ----------------------------------------------------- App.tsx: processLogs
contractLower == toLowerCase(CONTRACT_ADDRESS)

\* the batch size of the mounted component
concurrency == IF variant = "part_000" THEN CONCURRENCY_000 ELSE CONCURRENCY

HasKey(map, addr) == \E k \in 1..Len(map) : map[k].addr = addr
MapGet(map, addr) == map[CHOOSE k \in 1..Len(map) : map[k].addr = addr]
\* (mutant: set adds an entry even when the key is present)
MapSetAppend(map, addr, amount, txHash) ==
  Append(map, [addr |-> addr, amount |-> amount, txHash |-> txHash])

\* Map.prototype.set: an existing key keeps its place, a new key goes last
MapSet(map, addr, amount, txHash) ==
  LET e == [addr |-> addr, amount |-> amount, txHash |-> txHash]
  IN IF HasKey(map, addr)
     THEN [k \in 1..Len(map) |-> IF map[k].addr = addr THEN e ELSE map[k]]
     ELSE Append(map, e)

\* (mutant: an event with the amount of the entry replaces it as well)
replacesOnTie(map, addr, event) ==
  ~HasKey(map, addr) \/ ~amountGT(MapGet(map, addr).amount, event.amount)

\* (mutant: every event replaces the entry, the last one wins)
replacesAlways(map, addr, event) == TRUE

\* if (!current || event.amount > current.amount)
replaces(map, addr, event) ==
  ~HasKey(map, addr) \/ amountGT(event.amount, MapGet(map, addr).amount)

\* (mutant: the contract's own address is kept)
isRecipientAny(addr) == TRUE

\* if (addr !== contractLower)
isRecipient(addr) == addr # contractLower

\* the body of logs.forEach
mergeEvent(map, event) ==
  IF event.address = "" THEN map
  ELSE LET addr == toLowerCase(event.address)
       IN IF isRecipient(addr) /\ replaces(map, addr, event)
          THEN MapSet(map, addr, event.amount, event.transactionHash)
          ELSE map

RECURSIVE buildAddressMap(_, _)
buildAddressMap(map, logs) ==
  IF Len(logs) = 0 THEN map
  ELSE buildAddressMap(mergeEvent(map, logs[1]), Tail(logs))

\* part_000, the body of logs.forEach: the last event of an account wins
mergeEvent_000(map, event) ==
  IF event.address # contractLower
  THEN MapSet(map, event.address, event.amount, event.transactionHash)
  ELSE map

RECURSIVE buildAddressMap_000(_, _)
buildAddressMap_000(map, logs) ==
  IF Len(logs) = 0 THEN map
  ELSE buildAddressMap_000(mergeEvent_000(map, logs[1]), Tail(logs))

\* Array.from(rawAddressMap.keys())
mapKeys(map) == [k \in 1..Len(map) |-> map[k].addr]

\* (mutant: the filter compares with the default instead of the scan's threshold)
passesDefaultThreshold(map, addr, thr) ==
  amountGE(IF HasKey(map, addr) THEN MapGet(map, addr).amount ELSE ZeroAmount, DEFAULT_MIN_THRESHOLD)

\* (rawAddressMap.get(addr)?.amount || 0) >= threshold
passesThreshold(map, addr, thr) ==
  amountGE(IF HasKey(map, addr) THEN MapGet(map, addr).amount ELSE ZeroAmount, thr)

\* (mutant: every key of the map is looked up)
filterAddressesAll(map, thr) == mapKeys(map)

\* Array.from(rawAddressMap.keys()).filter(...)
filterAddresses(map, thr) ==
  LET keep(addr) == passesThreshold(map, addr, thr)
  IN SelectSeq(mapKeys(map), keep)

\* (mutant: the slice is one short)
batchPositionsShort(len, i) == (i + 1)..Min(i + concurrency - 1, len)

\* filteredAddresses.slice(i, i + CONCURRENCY), as 1-based positions
batchPositions(len, i) == (i + 1)..Min(i + concurrency, len)

\* the record the callback of batch.map resolves to
mergedRecord(addr, entry, rewardData) ==
  IF rewardData.status = "fulfilled"
  THEN [address |-> addr, latestLgns |-> entry.amount, latestTxHash |-> entry.txHash,
        level |-> rewardData.value.level, reward |-> rewardData.value.reward,
        isFetchingReward |-> FALSE]
  ELSE [address |-> addr, latestLgns |-> entry.amount, latestTxHash |-> entry.txHash,
        level |-> 0, reward |-> 0, isFetchingReward |-> FALSE]

\* (mutant: the await of Promise.all never resumes)
batchSettledNever(pending) == FALSE

\* (mutant: resumes on the first lookup that settles, as Promise.race would)
batchSettledFirst(pending) == TRUE

\* await Promise.all(batchPromises): resumes when no lookup of the batch is pending
batchSettled(pending) == pending = {}

\* part_000: mergedResults.sort((a, b) => b.latestLgns - a.latestLgns), in place
sortedData_000(mergedResults) ==
  stableSort(mergedResults,
             [k \in 1..Len(mergedResults) |-> mergedResults[k].latestLgns], TRUE)

\* the records handed to setData
committedResults(mergedResults) ==
  IF variant = "part_000" THEN sortedData_000(mergedResults) ELSE mergedResults

\* a slot of the Promise.all result array that is not filled yet
Unsettled ==
  [address |-> "", latestLgns |-> ZeroAmount, latestTxHash |-> "", level |-> 0, reward |-> 0,
   isFetchingReward |-> TRUE]

\* -------------------------------------------------------------- geminiService.ts
\* analyzeData: the promise it returns for each behaviour of the client
\* library ("ctorThrows": process.env.API_KEY or new GoogleGenAI throws, on
\* line 6, outside the try block; "noText": the response has no text)
analyzeData(kind) ==
  CASE kind = "ctorThrows" ->
         [status |-> "rejected", value |-> Null,
          message |-> "An API Key must be set when running in a browser"]
    [] kind = "serviceError" ->
         [status |-> "fulfilled", value |-> "Analysis currently unavailable.", message |-> ""]
    [] kind = "text" -> [status |-> "fulfilled", value |-> "summary", message |-> ""]
    [] OTHER -> [status |-> "fulfilled", value |-> Null, message |-> ""]

NarrationKinds == {"ctorThrows", "serviceError", "text", "noText"}

\* String(analysis || "")
analysisText(value) == IF value = Null THEN "" ELSE value

\* err.message || 'An unexpected error occurred during data synchronization.'
errorMessage(message) ==
  IF message = "" \/ message = Null
  THEN "An unexpected error occurred during data synchronization."
  ELSE message

\* part_000: err.message || 'Processing error occurred.'
errorMessage_000(message) ==
  IF message = "" \/ message = Null THEN "Processing error occurred." ELSE message

\* part_000: the finally block also resets the progress
finallyProgress(progress) ==
  IF variant = "part_000" THEN [current |-> 0, total |-> 0] ELSE progress

\* ------------------------------------------------------------------ the node
Height == Len(chain)

\* eth_blockNumber: the height as a hexadecimal string
ethBlockNumber == toStringRadix(Height, 16)

\* eth_getLogs: the logs of the blocks fromBlock..toBlock, in block order
ethGetLogs(fromBlock, toBlock) ==
  LET lo == Max(parseIntRadix(fromBlock, 16), 1)
      hi == Min(parseIntRadix(toBlock, 16), Height)
  IN IF hi < lo THEN <<>> ELSE Flatten([k \in 1..(hi - lo + 1) |-> chain[lo + k - 1]])

\* ------------------------------------------------- processLogs, step by step
\* the number of calls of processLogs a behaviour is followed through:
\* MaxScans, which may overlap, and on the chain of a single event ExtraScans
\* more, each started when no scan is in flight
scanLimit ==
  IF Len(chain) = 1 /\ Len(chain[1]) = 1 THEN MaxScans + ExtraScans ELSE MaxScans
\* the synchronous start of processLogs, up to the fetch of eth_blockNumber
BeginScan(range, thr, chunk) ==
  /\ started < scanLimit
  /\ started >= MaxScans => \A s \in ScanIds : scans[s].pc \in {"idle", "done"}
  /\ started' = started + 1
  /\ scans' = [scans EXCEPT ![started + 1] =
                 [IdleScan EXCEPT !.pc = "blockNumber", !.blockRange = range,
                                  !.threshold = thr, !.scanChunkSize = chunk,
                                  !.fetches = @ + 1]]
  /\ loading' = TRUE
  /\ loadingStage' = "logs"
  /\ error' = Null
  /\ UNCHANGED <<data, rewardProgress, aiAnalysis, isAnalyzing>>

\* (mutant: the catch block also clears the result set)
AbortClearing(s, sc, message) ==
  /\ scans' = [scans EXCEPT ![s] = [sc EXCEPT !.pc = "done", !.fetchFailed = TRUE]]
  /\ error' = (IF variant = "part_000" THEN errorMessage_000(message) ELSE errorMessage(message))
  /\ loading' = FALSE
  /\ loadingStage' = "idle"
  /\ rewardProgress' = finallyProgress(rewardProgress)
  /\ data' = <<>>
  /\ UNCHANGED <<aiAnalysis, isAnalyzing>>

\* the catch and finally blocks of processLogs
Abort(s, sc, message) ==
  /\ scans' = [scans EXCEPT ![s] = [sc EXCEPT !.pc = "done", !.fetchFailed = TRUE]]
  /\ error' = (IF variant = "part_000" THEN errorMessage_000(message) ELSE errorMessage(message))
  /\ loading' = FALSE
  /\ loadingStage' = "idle"
  /\ rewardProgress' = finallyProgress(rewardProgress)
  /\ UNCHANGED <<data, aiAnalysis, isAnalyzing>>

\* batch.map(async addr => ...): every lookup of the batch at i is issued
issueBatch(sc) ==
  LET pos == batchPositions(Len(sc.filteredAddresses), sc.i)
  IN [sc EXCEPT !.pc = "rewards",
                !.pending = pos,
                !.results = [k \in 1..Cardinality(pos) |-> Unsettled],
                !.lookups = @ \o SubSeq(sc.filteredAddresses, sc.i + 1, sc.i + Cardinality(pos)),
                !.batches = @ + 1]

\* (mutant: the new records are merged into the previous result set)
CommitMerging(s, sc, progress) ==
  /\ scans' = [scans EXCEPT ![s] =
                 [sc EXCEPT !.pc = "analyzing", !.committed = TRUE, !.narrations = @ + 1,
                            !.mergedResults = committedResults(@)]]
  /\ data' = data \o committedResults(sc.mergedResults)
  /\ loadingStage' = "analyzing"
  /\ isAnalyzing' = TRUE
  /\ rewardProgress' = progress
  /\ UNCHANGED <<loading, error, aiAnalysis>>

\* after the batch loop: setData, the 'analyzing' stage and the call of analyzeData
Commit(s, sc, progress) ==
  /\ scans' = [scans EXCEPT ![s] =
                 [sc EXCEPT !.pc = "analyzing", !.committed = TRUE, !.narrations = @ + 1,
                            !.mergedResults = committedResults(@)]]
  /\ data' = committedResults(sc.mergedResults)
  /\ loadingStage' = "analyzing"
  /\ isAnalyzing' = TRUE
  /\ rewardProgress' = progress
  /\ UNCHANGED <<loading, error, aiAnalysis>>

\* processLogs from the point where fetchPolygonLogs has resolved with logs
ContinueWithLogs(s, sc, logs) ==
  LET map == IF variant = "part_000" THEN buildAddressMap_000(<<>>, logs)
             ELSE buildAddressMap(<<>>, logs)
      filtered == filterAddresses(map, sc.threshold)
      sc2 == [sc EXCEPT !.logs = logs, !.rawAddressMap = map, !.filteredAddresses = filtered]
      progress == [current |-> 0, total |-> Len(filtered)]
  IN IF 0 < Len(filtered)
     THEN /\ scans' = [scans EXCEPT ![s] = issueBatch(sc2)]
          /\ loadingStage' = "rewards"
          /\ rewardProgress' = progress
          /\ UNCHANGED <<data, loading, error, aiAnalysis, isAnalyzing>>
     ELSE Commit(s, sc2, progress)

\* the number of range queries the fetch of sc is followed through
queryLimit(sc) ==
  Max(0, sc.latestBlock - startBlockOf(sc.latestBlock, sc.blockRange)) + ExtraQueries

\* the head of the range loop of fetchPolygonLogs: the next eth_getLogs query,
\* or the return of allEvents
RangeLoop(s, sc) ==
  IF rangeLoopCond(sc.currentFrom, sc.latestBlock)
  THEN LET to == currentToOf(sc.currentFrom, sc.scanChunkSize, sc.latestBlock)
       IN /\ Len(sc.queries) < queryLimit(sc)
          /\ scans' = [scans EXCEPT ![s] =
                         [sc EXCEPT !.pc = "getLogs", !.currentTo = to,
                                    !.queries = Append(@, [fromBlock |-> toStringRadix(sc.currentFrom, 16),
                                                            toBlock |-> toStringRadix(to, 16)])]]
          /\ UNCHANGED viewVars
  ELSE ContinueWithLogs(s, sc, sc.allEvents)

BlockNumberKinds == {"transport", "error", "result", "malformed"}

\* the eth_blockNumber response arrives
BlockNumberResponse(s) ==
  /\ scans[s].pc = "blockNumber"
  /\ \E kind \in BlockNumberKinds :
       LET sc == scans[s]
           latest == parseIntRadix(IF kind = "result" THEN ethBlockNumber ELSE <<>>, 16)
       IN CASE kind = "transport" -> Abort(s, sc, "Failed to fetch")
            [] kind = "error" -> Abort(s, sc, "RPC Error: header not found")
            [] OTHER -> RangeLoop(s, [sc EXCEPT !.latestBlock = latest,
                                                !.currentFrom = startBlockOf(latest, sc.blockRange)])
  /\ UNCHANGED <<envVars, settingVars, tableVars, started>>

GetLogsKinds == {"transport", "error", "noresult", "result"}

\* an eth_getLogs response arrives
GetLogsResponse(s) ==
  /\ scans[s].pc = "getLogs"
  /\ \E kind \in GetLogsKinds :
       LET sc == scans[s]
           q == sc.queries[Len(sc.queries)]
           next == sc.currentFrom + sc.scanChunkSize
       IN CASE rangeOutcome(kind) = "throw" ->
                 Abort(s, sc, IF kind = "transport" THEN "Failed to fetch"
                              ELSE "Cannot read properties of undefined (reading 'map')")
            [] rangeOutcome(kind) = "skip" ->
                 RangeLoop(s, [sc EXCEPT !.currentFrom = next, !.skipped = @ + 1,
                                         !.outcomes = Append(@, "skip")])
            [] OTHER ->
                 RangeLoop(s, [sc EXCEPT !.currentFrom = next,
                                         !.outcomes = Append(@, "append"),
                                         !.allEvents = @ \o decodeLogs(ethGetLogs(q.fromBlock, q.toBlock))])
  /\ UNCHANGED <<envVars, settingVars, tableVars, started>>

\* the reward lookup at position p of filteredAddresses settles; the last one
\* of a batch resumes processLogs after Promise.all
LookupSettle(s, p) ==
  /\ scans[s].pc = "rewards"
  /\ p \in scans[s].pending
  /\ LET sc == scans[s]
         addr == sc.filteredAddresses[p]
         rec == mergedRecord(addr, MapGet(sc.rawAddressMap, addr), fetchRewards(ocros[addr]))
         sc1 == [sc EXCEPT !.pending = @ \ {p}, !.results[p - sc.i] = rec]
     IN IF batchSettled(sc1.pending)
        THEN LET sc2 == [sc1 EXCEPT !.mergedResults = @ \o sc1.results]
                 progress == [rewardProgress EXCEPT !.current = Len(sc2.mergedResults)]
             IN IF sc2.i + concurrency < Len(sc2.filteredAddresses)
                THEN /\ scans' = [scans EXCEPT ![s] = [sc2 EXCEPT !.pc = "delay"]]
                     /\ rewardProgress' = progress
                     /\ UNCHANGED <<data, loading, loadingStage, error, aiAnalysis, isAnalyzing>>
                ELSE Commit(s, sc2, progress)
        ELSE /\ scans' = [scans EXCEPT ![s] = sc1]
             /\ UNCHANGED viewVars
  /\ UNCHANGED <<envVars, settingVars, tableVars, started>>

\* the pause between two batches (30 ms, 100 ms in part_000) is over: the next
\* batch is issued
DelayElapsed(s) ==
  /\ scans[s].pc = "delay"
  /\ scans' = [scans EXCEPT ![s] = issueBatch([scans[s] EXCEPT !.i = @ + concurrency])]
  /\ UNCHANGED <<viewVars, envVars, settingVars, tableVars, started>>

\* analyzeData settles. App.tsx: setAiAnalysis or the inner catch, then
\* setIsAnalyzing(false) and the finally block. part_000 has no inner try: a
\* rejection goes to the outer catch (setError) and skips setIsAnalyzing(false).
NarrationSettle(s) ==
  /\ scans[s].pc = "analyzing"
  /\ \E kind \in NarrationKinds :
       LET r == analyzeData(kind)
       IN /\ scans' = [scans EXCEPT ![s].pc = "done", ![s].narration = kind]
          /\ IF variant = "part_000"
             THEN IF r.status = "fulfilled"
                  THEN aiAnalysis' = r.value /\ isAnalyzing' = FALSE /\ error' = error
                  ELSE /\ error' = errorMessage_000(r.message)
                       /\ UNCHANGED <<aiAnalysis, isAnalyzing>>
             ELSE /\ aiAnalysis' = (IF r.status = "fulfilled" THEN analysisText(r.value)
                                    ELSE aiAnalysis)
                  /\ isAnalyzing' = FALSE
                  /\ error' = error
  /\ loading' = FALSE
  /\ loadingStage' = "idle"
  /\ rewardProgress' = finallyProgress(rewardProgress)
  /\ UNCHANGED <<data, envVars, settingVars, tableVars, started>>

\* useEffect(() => { processLogs(); }, [processLogs]) on mount
Mount ==
  /\ started = 0
  /\ BeginScan(blockRange, threshold, scanChunkSize)
  /\ UNCHANGED <<envVars, settingVars, tableVars>>


\* ------------------------------------------------------------ user actions
\* the 'Refresh Data' button (disabled while loading)
Refresh ==
  /\ started >= 1
  /\ ~loading
  /\ BeginScan(blockRange, threshold, scanChunkSize)
  /\ UNCHANGED <<envVars, settingVars, tableVars>>

\* the 'Retry Data Sync' link of the error panel
Retry ==
  /\ started >= 1
  /\ error # Null
  /\ BeginScan(blockRange, threshold, scanChunkSize)
  /\ UNCHANGED <<envVars, settingVars, tableVars>>

\* values the number inputs of the settings form are set to
FormThresholds == {0, 60}
FormRanges == {2}

\* The settings panel is open whenever the user wants it to be (showSettings is
\* toggled by a button that is always enabled), so its handlers are always enabled.
\* onChange of the threshold input: setThreshold; processLogs is re-created
\* and the effect on [processLogs] calls it
SetThreshold(v) ==
  /\ started >= 1
  /\ v # threshold
  /\ threshold' = v
  /\ BeginScan(blockRange, v, scanChunkSize)
  /\ UNCHANGED <<envVars, tableVars, rpcUrl, blockRange, scanChunkSize>>

\* onChange of the window input
SetBlockRange(v) ==
  /\ started >= 1
  /\ v # blockRange
  /\ blockRange' = v
  /\ BeginScan(v, threshold, scanChunkSize)
  /\ UNCHANGED <<envVars, tableVars, rpcUrl, threshold, scanChunkSize>>

\* part_000: values below 1 the 'Audit Batch' input is set to (0 is also the
\* value of the emptied field)
FormChunks == {0, -1}

\* part_000: onChange of the 'Audit Batch' input: setScanChunkSize; processLogs
\* is re-created and the effect on [processLogs] calls it
setScanChunkSize(v) ==
  /\ variant = "part_000"
  /\ started >= 1
  /\ v # scanChunkSize
  /\ scanChunkSize' = v
  /\ BeginScan(blockRange, threshold, v)
  /\ UNCHANGED <<envVars, tableVars, rpcUrl, blockRange, threshold>>

\* 'Apply & Synchronize'
saveSettings ==
  /\ started >= 1
  /\ localStorage' = [lgns_rpc |-> rpcUrl,
                      lgns_range |-> toStringRadix(blockRange, 10),
                      lgns_threshold |-> toStringRadix(threshold, 10),
                      lgns_chunk |-> toStringRadix(scanChunkSize, 10)]
  /\ BeginScan(blockRange, threshold, scanChunkSize)
  /\ UNCHANGED <<variant, chain, ocros, tableVars, rpcUrl, blockRange, threshold, scanChunkSize>>

\* ------------------------------------------------------- App.tsx: the table
\* type SortKey
SortKeys == {"level", "reward", "latestLgns"}

\* (mutant: a two-state toggle, ascending goes back to descending)
directionAfterTwoState(config, key) ==
  IF config.key = key /\ config.direction = "desc" THEN "asc" ELSE "desc"

\* the direction handleSort computes for a click on the column `key`
directionAfter(config, key) ==
  IF config.key = key /\ config.direction = "desc" THEN "asc"
  ELSE IF config.key = key /\ config.direction = "asc" THEN Null
  ELSE "desc"

\* a click on a column header (the table is rendered when there is no error)
handleSort(key) ==
  /\ error = Null
  /\ sortConfig' = [key |-> key, direction |-> directionAfter(sortConfig, key)]
  /\ UNCHANGED <<envVars, settingVars, viewVars, searchAddress, scans, started>>

\* texts typed into the search box
SearchStrings == {"", "0xA1", "0xd0"}

\* String.prototype.includes on the addresses and search texts of the model
includes(str, search) ==
  \/ search = ""
  \/ search = str
  \/ search = "0xd0" /\ str \in {"0xd01", "0xd02", "0xd03", "0xd04", "0xd05",
                                   "0xd06", "0xd07", "0xd08", "0xd09"}

\* onChange of the search box
setSearchAddress(text) ==
  /\ error = Null
  /\ text # searchAddress
  /\ searchAddress' = text
  /\ UNCHANGED <<envVars, settingVars, viewVars, sortConfig, scans, started>>

\* Number(item[key]) || 0 as a decimal
sortValue(item, key) ==
  IF key = "latestLgns" THEN item.latestLgns ELSE [whole |-> item[key], frac |-> 0]

\* (mutant: the search text is compared as typed)
lowerSearchAsTyped == searchAddress

\* const lowerSearch = searchAddress.toLowerCase()
lowerSearch == toLowerCase(searchAddress)

\* the rows of the table
sortedAndFilteredData ==
  LET matches(item) == includes(toLowerCase(item.address), lowerSearch)
      result == IF searchAddress # "" THEN SelectSeq(data, matches) ELSE data
      values == [k \in 1..Len(result) |-> sortValue(result[k], sortConfig.key)]
      amounts == [k \in 1..Len(result) |-> result[k].latestLgns]
  IN IF sortConfig.direction = "asc" THEN stableSort(result, values, FALSE)
     ELSE IF sortConfig.direction = "desc" THEN stableSort(result, values, TRUE)
     ELSE stableSort(result, amounts, TRUE)

\* acc + (Number(curr.latestLgns) || 0) on decimals
amountPlus(a, b) ==
  [whole |-> a.whole + b.whole + ((a.frac + b.frac) \div Scale),
   frac |-> (a.frac + b.frac) % Scale]

\* Array.prototype.reduce from the left
RECURSIVE reduceAmounts(_, _, _)
reduceAmounts(records, k, acc) ==
  IF k > Len(records) THEN acc
  ELSE reduceAmounts(records, k + 1, amountPlus(acc, records[k].latestLgns))

RECURSIVE reducePeak(_, _, _)
reducePeak(records, k, max) ==
  IF k > Len(records) THEN max
  ELSE reducePeak(records, k + 1,
                  IF amountGT(records[k].latestLgns, max) THEN records[k].latestLgns ELSE max)

RECURSIVE reduceLevels(_, _, _)
reduceLevels(records, k, acc) ==
  IF k > Len(records) THEN acc ELSE reduceLevels(records, k + 1, acc + records[k].level)

\* the quotient sum / count of avgLevel, kept as a fraction
Average(sum, count) == [sum |-> sum, count |-> count]
ZeroStats ==
  [totalUsers |-> 0, totalLgns |-> ZeroAmount, avgLevel |-> Average(0, 1), peakOutput |-> ZeroAmount]

\* the body of the stats memo over a list of records
statsOf(records) ==
  IF Len(records) = 0 THEN ZeroStats
  ELSE [totalUsers |-> Len(records),
        totalLgns |-> reduceAmounts(records, 1, ZeroAmount),
        avgLevel |-> Average(reduceLevels(records, 1, 0), Len(records)),
        peakOutput |-> reducePeak(records, 1, ZeroAmount)]

\* (mutant: the statistics are computed from the rows of the table)
statsOfView == statsOf(sortedAndFilteredData)

\* const stats = useMemo(..., [data])
stats == statsOf(data)

\* ------------------------------------------------------------ environments
TxHashes ==
  <<"0xt01", "0xt02", "0xt03", "0xt04", "0xt05", "0xt06", "0xt07", "0xt08",
    "0xt09", "0xt10", "0xt11", "0xt12", "0xt13", "0xt14", "0xt15", "0xt16">>

\* the blocks of a chain from the (address, data) pairs of their logs: the node
\* stamps block number and transaction hash
Offset(blocks, b) == SeqSum([j \in 1..(b - 1) |-> Len(blocks[j])])
stampChain(blocks) ==
  [b \in 1..Len(blocks) |->
     [k \in 1..Len(blocks[b]) |->
        [address |-> blocks[b][k].address, data |-> blocks[b][k].data,
         transactionHash |-> TxHashes[Offset(blocks, b) + k],
         blockNumber |-> toStringRadix(b, 16)]]]

ContractUpper == "0x806FDAB92B0FC7FBE4BBBE5117A54CAA9283D5A4"
LongAccountNames ==
  <<"0xd01", "0xd02", "0xd03", "0xd04", "0xd05", "0xd06", "0xd07", "0xd08",
    "0xd09", "0xd10", "0xd11", "0xd12">>
LongAccounts == SubSeq(LongAccountNames, 1, CONCURRENCY + ExtraAccounts)
Accounts == {"0xa1", "0xb2", contractLower} \cup Range(LongAccountNames)

RespOk(level, reward) ==
  [kind |-> "array", ok |-> TRUE, status |-> 200,
   body |-> <<[isNull |-> FALSE, level |-> level, reward |-> reward]>>]
Resp404 == [kind |-> "array", ok |-> FALSE, status |-> 404, body |-> <<>>]
Resp500 == [kind |-> "array", ok |-> FALSE, status |-> 500, body |-> <<>>]
RespTransport == [kind |-> "transport", ok |-> FALSE, status |-> 0, body |-> <<>>]
RespUnparsable == [kind |-> "unparsable", ok |-> TRUE, status |-> 200, body |-> <<>>]
RespEmpty == [kind |-> "array", ok |-> TRUE, status |-> 200, body |-> <<>>]
RespObject == [kind |-> "object", ok |-> TRUE, status |-> 200, body |-> <<>>]
RespNullItem ==
  [kind |-> "array", ok |-> TRUE, status |-> 200,
   body |-> <<[isNull |-> TRUE, level |-> 0, reward |-> 0]>>]
FailureResponses ==
  {Resp404, Resp500, RespTransport, RespUnparsable, RespEmpty, RespObject, RespNullItem}
Responses == FailureResponses \cup {RespOk(3, 7), RespOk(0, 0)}

DefaultOcros == [a \in Accounts |-> RespOk(1, 5)]
EmptyStorage == [lgns_rpc |-> "", lgns_range |-> <<>>, lgns_threshold |-> <<>>, lgns_chunk |-> <<>>]

Log(address, hi, lo) == [address |-> address, data |-> [hi |-> hi, lo |-> lo]]

\* a chain with more accounts above the default threshold than one batch holds
LongBlocks ==
  LET n == Len(LongAccounts)
      first == [k \in 1..4 |-> Log(LongAccounts[k], IF k = 1 THEN 70 ELSE 40 + k, 0)]
      rest == [k \in 1..(n - 4) |-> Log(LongAccounts[4 + k], 44 + k, 0)]
  IN <<first \o <<Log("0xb2", 10, 0)>>, rest>>
LongConfig ==
  [chain |-> stampChain(LongBlocks),
   ocros |-> [DefaultOcros EXCEPT ![LongAccounts[2]] = Resp404],
   localStorage |-> EmptyStorage]

\* every sequence of at most MaxEvents logs, in one block
SeqsUpTo(S, n) == UNION {[1..k -> S] : k \in 0..n}
MergeAddresses == {"0xa1", "0xA1", "0xb2", CONTRACT_ADDRESS, ContractUpper}
MergeAmounts == {[hi |-> 39, lo |-> Scale - 1], [hi |-> 40, lo |-> 0], [hi |-> 50, lo |-> 0]}
MergeLogs == [address : MergeAddresses, data : MergeAmounts]
MergeConfigs ==
  {[chain |-> stampChain(<<evs>>), ocros |-> DefaultOcros, localStorage |-> EmptyStorage] :
     evs \in SeqsUpTo(MergeLogs, MaxEvents)}

\* the scenario of the specification, under several stored thresholds
ScenarioBlocks ==
  <<<<Log("0xA1", 50, 0), Log("0xb2", 10, 0)>>, <<Log("0xa1", 30, 0)>>>>
StoredThresholds == {<<>>, <<0>>, <<1>>, <<5, 0>>, <<6, 0>>}
ThresholdConfigs ==
  {[chain |-> stampChain(ScenarioBlocks), ocros |-> DefaultOcros,
    localStorage |-> [EmptyStorage EXCEPT !.lgns_threshold = t]] : t \in StoredThresholds}

\* every response of the reward service, for two accounts above the threshold
RewardBlocks == <<<<Log("0xa1", 50, 0), Log("0xb2", 45, 0)>>>>
RewardConfigs ==
  {[chain |-> stampChain(RewardBlocks),
    ocros |-> [DefaultOcros EXCEPT !["0xa1"] = r1, !["0xb2"] = r2],
    localStorage |-> EmptyStorage] :
     r1 \in Responses, r2 \in {RespOk(2, 9), Resp404, RespTransport}}

\* every height, window and chunk size, one log in each block
HeightBlocks(h) == [b \in 1..h |-> <<Log("0xa1", 40 + b, 0)>>]
FetchConfigs ==
  {[chain |-> stampChain(HeightBlocks(h)), ocros |-> DefaultOcros,
    localStorage |-> [EmptyStorage EXCEPT !.lgns_range = toStringRadix(w, 10),
                                          !.lgns_chunk = toStringRadix(c, 10)]] :
     h \in 1..MaxHeight, w \in 1..MaxWindow, c \in 1..MaxChunk}

\* positions of filteredAddresses: no chain has more accounts than names
Positions == 1..(Len(LongAccountNames) + 1)

\* ------------------------------------------------------------------- Init
\* the useState initializers of the four settings, on a start of the
\* application with the given stored settings
initialRpcUrl(storage) == IF storage.lgns_rpc = "" THEN DEFAULT_POLYGON_RPC ELSE storage.lgns_rpc
initialBlockRange(storage) == NumberOr(storage.lgns_range, DEFAULT_BLOCKS_RANGE)
initialThreshold(storage) == NumberOr(storage.lgns_threshold, DEFAULT_MIN_THRESHOLD)
initialScanChunkSize(storage) == NumberOr(storage.lgns_chunk, DEFAULT_SCAN_CHUNK)

\* the state after the first render of App, for an environment cfg
InitWith(cfg) ==
  /\ chain = cfg.chain
  /\ ocros = cfg.ocros
  /\ localStorage = cfg.localStorage
  /\ rpcUrl = initialRpcUrl(cfg.localStorage)
  /\ blockRange = initialBlockRange(cfg.localStorage)
  /\ threshold = initialThreshold(cfg.localStorage)
  /\ scanChunkSize = initialScanChunkSize(cfg.localStorage)
  /\ data = <<>>
  /\ loading = TRUE
  /\ loadingStage = "idle"
  /\ rewardProgress = [current |-> 0, total |-> 0]
  /\ error = Null
  /\ aiAnalysis = ""
  /\ isAnalyzing = FALSE
  /\ sortConfig = [key |-> "latestLgns", direction |-> "desc"]
  /\ searchAddress = ""
  /\ scans = [s \in ScanIds |-> IdleScan]
  /\ started = 0

\* one scan, started on mount, in every environment
ScanConfigs ==
  {LongConfig} \cup MergeConfigs \cup ThresholdConfigs \cup RewardConfigs \cup FetchConfigs
InitScan == \E cfg \in ScanConfigs : InitWith(cfg) /\ variant = "App.tsx"
NextScan ==
  \/ Mount
  \/ \E s \in ScanIds : BlockNumberResponse(s)
  \/ \E s \in ScanIds : GetLogsResponse(s)
  \/ \E s \in ScanIds, p \in Positions : LookupSettle(s, p)
  \/ \E s \in ScanIds : DelayElapsed(s)
  \/ \E s \in ScanIds : NarrationSettle(s)
SpecScan == InitScan /\ [][NextScan]_vars

\* the application: scans started on mount and by the user, possibly overlapping
\* (the long chain with a stored threshold above its amounts: its accounts show
\* up once the threshold is lowered in the settings form)
LongStoredConfig == [LongConfig EXCEPT !.localStorage.lgns_threshold = <<6, 0>>]
\* a chain of a single event, for the sequences of changes of the settings
SingleBlocks == <<<<Log("0xa1", 50, 0)>>>>
SingleConfig ==
  [chain |-> stampChain(SingleBlocks), ocros |-> DefaultOcros, localStorage |-> EmptyStorage]
AppConfigs == {LongStoredConfig, SingleConfig} \cup ThresholdConfigs
Init == \E cfg \in AppConfigs : InitWith(cfg) /\ variant = "App.tsx"
Next ==
  \/ Mount
  \/ \E s \in ScanIds : BlockNumberResponse(s)
  \/ \E s \in ScanIds : GetLogsResponse(s)
  \/ \E s \in ScanIds, p \in Positions : LookupSettle(s, p)
  \/ \E s \in ScanIds : DelayElapsed(s)
  \/ \E s \in ScanIds : NarrationSettle(s)
  \/ Retry
  \/ Refresh
  \/ \E v \in FormThresholds : SetThreshold(v)
  \/ \E v \in FormRanges : SetBlockRange(v)
  \/ saveSettings
Spec == Init /\ [][Next]_vars

\* the step of scan s that is due: a response of the node or of the reward
\* service arrives, the pause between two batches is over, the narration
\* call settles (the position of the scan enables one of them at most)
ScanStep(s) ==
  \/ BlockNumberResponse(s)
  \/ GetLogsResponse(s)
  \/ \E p \in Positions : LookupSettle(s, p)
  \/ DelayElapsed(s)
  \/ NarrationSettle(s)

\* The application under the assumption that every request that is in flight
\* settles and every timer that was set fires: no scan waits forever for the
\* step that is due.
Settles == \A s \in ScanIds : WF_vars(ScanStep(s))
LiveConfigs == {LongStoredConfig}
InitLive == \E cfg \in LiveConfigs : InitWith(cfg) /\ variant = "App.tsx"
SpecLive == InitLive /\ [][Next]_vars /\ Settles

\* one scan and the controls of the table
ViewConfigs == {LongConfig} \cup ThresholdConfigs \cup RewardConfigs
InitView == \E cfg \in ViewConfigs : InitWith(cfg) /\ variant = "App.tsx"
NextView ==
  \/ Mount
  \/ \E s \in ScanIds : BlockNumberResponse(s)
  \/ \E s \in ScanIds : GetLogsResponse(s)
  \/ \E s \in ScanIds, p \in Positions : LookupSettle(s, p)
  \/ \E s \in ScanIds : DelayElapsed(s)
  \/ \E s \in ScanIds : NarrationSettle(s)
  \/ \E key \in SortKeys : handleSort(key)
  \/ \E text \in SearchStrings : setSearchAddress(text)
SpecView == InitView /\ [][NextView]_vars

\* one scan of the component of part_000
LongAccounts_000 == SubSeq(LongAccountNames, 1, CONCURRENCY_000 + ExtraAccounts)
LongBlocks_000 ==
  <<[k \in 1..Len(LongAccounts_000) |-> Log(LongAccounts_000[k], 40 + k, 0)]>>
LongConfig_000 ==
  [chain |-> stampChain(LongBlocks_000), ocros |-> DefaultOcros, localStorage |-> EmptyStorage]
Configs_000 == {LongConfig_000} \cup MergeConfigs \cup ThresholdConfigs \cup RewardConfigs
Init_000 == \E cfg \in Configs_000 : InitWith(cfg) /\ variant = "part_000"
Spec_000 == Init_000 /\ [][NextScan]_vars

\* the component of part_000 with the chunk-size input of its settings form
FormConfigs_000 == {LongConfig_000, SingleConfig}
InitForm_000 == \E cfg \in FormConfigs_000 : InitWith(cfg) /\ variant = "part_000"
NextForm_000 ==
  \/ Mount
  \/ \E s \in ScanIds : BlockNumberResponse(s)
  \/ \E s \in ScanIds : GetLogsResponse(s)
  \/ \E s \in ScanIds, p \in Positions : LookupSettle(s, p)
  \/ \E s \in ScanIds : DelayElapsed(s)
  \/ \E s \in ScanIds : NarrationSettle(s)
  \/ \E v \in FormChunks : setScanChunkSize(v)
SpecForm_000 == InitForm_000 /\ [][NextForm_000]_vars

\* ================================================================== claims
\* processLogs of scan s has merged and filtered the events it fetched
Processed(s) ==
  scans[s].pc \in {"rewards", "delay", "analyzing", "done"} /\ ~scans[s].fetchFailed

\* the events of account addr in logs, and the largest of their amounts
AccountEvents(logs, addr) == {j \in 1..Len(logs) : toLowerCase(logs[j].address) = addr}
IsMaxAmount(logs, addr, amount) ==
  /\ \E j \in AccountEvents(logs, addr) : logs[j].amount = amount
  /\ \A j \in AccountEvents(logs, addr) : ~amountGT(logs[j].amount, amount)
IsContract(address) == toLowerCase(address) = toLowerCase(CONTRACT_ADDRESS)

\* map holds, for every account of logs other than the contract, the largest amount
HoldsMaxima(map, logs) ==
  /\ \A k \in 1..Len(map) : IsMaxAmount(logs, map[k].addr, map[k].amount)
  /\ \A j \in 1..Len(logs) :
       ~IsContract(logs[j].address) => HasKey(map, toLowerCase(logs[j].address))

PermutationsOf(logs) ==
  {[k \in 1..Len(logs) |-> logs[f[k]]] : f \in Permutations(1..Len(logs))}

\* C1: once a scan has merged the events it fetched, the amount stored for each
\* account in rawAddressMap is the largest amount among that account's events,
\* and merging any permutation of the events gives the largest amounts as well.
C1_MapHoldsMaximum ==
  \A s \in ScanIds :
    Processed(s) =>
      /\ HoldsMaxima(scans[s].rawAddressMap, scans[s].logs)
      /\ Len(scans[s].logs) <= MaxEvents =>
           \A perm \in PermutationsOf(scans[s].logs) :
             HoldsMaxima(buildAddressMap(<<>>, perm), scans[s].logs)

\* C1 witness: an account with two events whose larger amount came first
C1_Witness ==
  \E s \in ScanIds :
    /\ Processed(s)
    /\ \E j, k \in 1..Len(scans[s].logs) :
         /\ j < k
         /\ scans[s].logs[j].address = scans[s].logs[k].address
         /\ amountGT(scans[s].logs[j].amount, scans[s].logs[k].amount)
         /\ HasKey(scans[s].rawAddressMap, scans[s].logs[j].address)

\* C2: every record of the result set a scan commits has an amount of at least
\* the threshold the scan was started with, and no account whose largest amount
\* is below that threshold has a record in it.
C2_ResultAboveThreshold ==
  \A s \in ScanIds :
    scans[s].committed =>
      /\ \A k \in 1..Len(scans[s].mergedResults) :
           amountGE(scans[s].mergedResults[k].latestLgns, scans[s].threshold)
      /\ \A j \in 1..Len(scans[s].logs), k \in 1..Len(scans[s].mergedResults) :
           (/\ scans[s].mergedResults[k].address = toLowerCase(scans[s].logs[j].address)
            /\ IsMaxAmount(scans[s].logs, toLowerCase(scans[s].logs[j].address),
                           scans[s].logs[j].amount))
             => amountGE(scans[s].logs[j].amount, scans[s].threshold)

\* C2 witness: a committed result with a record, of a scan that saw an account
\* below its threshold
C2_Witness ==
  \E s \in ScanIds :
    /\ scans[s].committed
    /\ data = scans[s].mergedResults
    /\ Len(data) > 0
    /\ \E k \in 1..Len(scans[s].rawAddressMap) :
         ~amountGE(scans[s].rawAddressMap[k].amount, scans[s].threshold)

\* C3: the contract's own address, compared without regard to case, is never a
\* key of rawAddressMap and never the address of a record of the result set.
C3_ContractExcluded ==
  /\ \A s \in ScanIds :
       /\ \A k \in 1..Len(scans[s].rawAddressMap) : ~IsContract(scans[s].rawAddressMap[k].addr)
       /\ \A k \in 1..Len(scans[s].mergedResults) : ~IsContract(scans[s].mergedResults[k].address)
  /\ \A k \in 1..Len(data) : ~IsContract(data[k].address)

\* C3 witness: a committed, non-empty result of a scan that fetched an event of
\* the contract's address
C3_Witness ==
  \E s \in ScanIds :
    /\ scans[s].committed
    /\ Len(data) > 0
    /\ \E j \in 1..Len(scans[s].logs) : IsContract(scans[s].logs[j].address)
    /\ \E b \in 1..Len(chain) : \E j \in 1..Len(chain[b]) : chain[b][j].address = ContractUpper

\* C4: every lookup a scan has issued resolves, whatever the reward service
\* responds, to {level: 0, reward: 0} on a failure; and the account of a failed lookup
\* has its record in the committed result with level 0, reward 0 and its own
\* amount and txHash.
C4_LookupFailureIsZero ==
  /\ \A s \in ScanIds : \A a \in Range(scans[s].lookups) :
       /\ fetchRewards(ocros[a]).status = "fulfilled"
       /\ ocros[a] \in FailureResponses => fetchRewards(ocros[a]).value = ZeroReward
  /\ \A s \in ScanIds :
       scans[s].committed =>
         \A k \in 1..Len(scans[s].rawAddressMap) :
           LET e == scans[s].rawAddressMap[k]
           IN (amountGE(e.amount, scans[s].threshold) /\ ocros[e.addr] \in FailureResponses) =>
                \E r \in 1..Len(scans[s].mergedResults) :
                  scans[s].mergedResults[r] =
                    [address |-> e.addr, latestLgns |-> e.amount, latestTxHash |-> e.txHash,
                     level |-> 0, reward |-> 0, isFetchingReward |-> FALSE]

\* C4 witness: a committed result that holds the record of an account whose
\* lookup failed with a status other than 404
C4_Witness ==
  \E s \in ScanIds :
    /\ scans[s].committed
    /\ \E k \in 1..Len(data) :
         /\ ocros[data[k].address] \in FailureResponses \ {Resp404}
         /\ data[k].level = 0
         /\ data[k].reward = 0

CeilDiv(m, n) == (m + n - 1) \div n

\* C5: a scan that commits has issued exactly ceil(M / CONCURRENCY) batches for
\* its M filtered accounts, and its result lists the accounts in the order of
\* filteredAddresses, which is the insertion order of rawAddressMap.
C5_BatchesAndOrder ==
  \A s \in ScanIds :
    scans[s].committed =>
      /\ scans[s].batches = CeilDiv(Len(scans[s].filteredAddresses), CONCURRENCY)
      /\ [k \in 1..Len(scans[s].mergedResults) |-> scans[s].mergedResults[k].address]
           = scans[s].filteredAddresses
      /\ \A j, k \in 1..Len(scans[s].mergedResults) :
           j < k =>
             \E mj, mk \in 1..Len(scans[s].rawAddressMap) :
               /\ mj < mk
               /\ scans[s].rawAddressMap[mj].addr = scans[s].mergedResults[j].address
               /\ scans[s].rawAddressMap[mk].addr = scans[s].mergedResults[k].address

\* C5 witness: a committed result of more accounts than one batch holds
C5_Witness ==
  \E s \in ScanIds :
    /\ scans[s].committed
    /\ Len(scans[s].filteredAddresses) > CONCURRENCY
    /\ scans[s].batches = 2
    /\ data = scans[s].mergedResults

\* C6: when the event fetch of a scan fails, the scan ends there: it has issued
\* no reward lookup and no narration call and commits nothing, the step that
\* fails it sets error to a non-empty message and leaves data as it was.
C6_FetchFailureAborts ==
  [][\A s \in ScanIds :
       scans'[s].fetchFailed =>
         /\ scans'[s].pc = "done"
         /\ scans'[s].lookups = <<>>
         /\ scans'[s].narrations = 0
         /\ ~scans'[s].committed
         /\ ~scans[s].fetchFailed => (data' = data /\ error' \notin {Null, ""})]_vars

\* C6 witness: a scan's fetch has failed, the error is shown and the records
\* of an earlier scan are still in data
C6_Witness ==
  \E s \in ScanIds :
    /\ scans[s].fetchFailed
    /\ error \notin {Null, ""}
    /\ Len(data) > 0

\* C7 (as claimed): no failure of a range query fails fetchPolygonLogs, so a
\* fetch that failed has failed at the current-height query, before any range
\* query was issued.
C7_RangeFailureNeverFatal ==
  \A s \in ScanIds : scans[s].fetchFailed => scans[s].queries = <<>>

\* the blocks the range queries of scan s asked for
QueriesCovering(s, b) ==
  {k \in 1..Len(scans[s].queries) :
     /\ parseIntRadix(scans[s].queries[k].fromBlock, 16) <= b
     /\ b <= parseIntRadix(scans[s].queries[k].toBlock, 16)}

\* C8 (as claimed): when no range query failed, the range queries of a fetch
\* cover every block from max(0, latest - window) through latest exactly once,
\* and the fetch returns every event of those blocks.
C8_WindowCovered ==
  \A s \in ScanIds :
    (Processed(s) /\ scans[s].skipped = 0 /\ scans[s].latestBlock # NaN) =>
      LET latest == scans[s].latestBlock
          first == Max(0, latest - scans[s].blockRange)
      IN /\ \A b \in first..latest : Cardinality(QueriesCovering(s, b)) = 1
         /\ scans[s].logs =
              decodeLogs(ethGetLogs(toStringRadix(first, 16), toStringRadix(latest, 16)))

\* C9: the lookups of a batch form a barrier: a scan issues new lookups only
\* when none of its lookups is pending, it never has more than CONCURRENCY
\* lookups pending, and it appends records to mergedResults only when the whole
\* batch has settled (every appended record is that of a settled lookup).
C9_BatchBarrier ==
  [][\A s \in ScanIds :
       /\ Cardinality(scans'[s].pending) <= CONCURRENCY
       /\ Len(scans'[s].lookups) > Len(scans[s].lookups) => scans[s].pending = {}
       /\ Len(scans'[s].mergedResults) > Len(scans[s].mergedResults) =>
            /\ scans'[s].pending = {}
            /\ \A k \in 1..Len(scans'[s].mergedResults) : scans'[s].mergedResults[k] # Unsettled]_vars

\* C9 witness: the second batch of a scan is in flight after a full first batch
C9_Witness ==
  \E s \in ScanIds :
    /\ scans[s].pc = "rewards"
    /\ scans[s].batches = 2
    /\ scans[s].pending # {}
    /\ Len(scans[s].mergedResults) = CONCURRENCY

\* the records of every filtered account of scan s, in order
CompleteResult(s) ==
  [p \in 1..Len(scans[s].filteredAddresses) |->
     LET addr == scans[s].filteredAddresses[p]
     IN mergedRecord(addr, MapGet(scans[s].rawAddressMap, addr), fetchRewards(ocros[addr]))]

\* C10: data is the initial empty list until a scan commits, and from then on
\* the complete result of one scan that has committed: the records of all its
\* batches and nothing else.
C10_DataIsOneCompleteResult ==
  \/ data = <<>> /\ \A s \in ScanIds : ~scans[s].committed
  \/ \E s \in ScanIds : scans[s].committed /\ data = CompleteResult(s)

\* C10 witness: data is the two-batch result of one scan after another scan
\* has committed a different, non-empty result
C10_Witness ==
  \E s, t \in ScanIds :
    /\ s # t
    /\ scans[s].committed
    /\ scans[t].committed
    /\ Len(scans[s].mergedResults) > 0
    /\ scans[t].batches = 2
    /\ data = scans[t].mergedResults
    /\ data # scans[s].mergedResults

\* C11 (as claimed): a scan started later supersedes the earlier ones: once
\* every scan that was started has finished, data is the result set of the
\* scan that was started last (if that scan committed one), whichever scan
\* finished first.
C11_LastStartedWins ==
  (started >= 2 /\ \A s \in 1..started : scans[s].pc = "done") =>
    (scans[started].committed => data = scans[started].mergedResults)

\* C12 (as claimed): analyzeData never rejects: the call a scan has made has
\* resolved, and for a failure (the client cannot be constructed, the service
\* call fails) it has resolved to a non-empty fallback string.
C12_NarrationNeverRejects ==
  \A s \in ScanIds :
    scans[s].narration # "" =>
      LET r == analyzeData(scans[s].narration)
      IN /\ r.status = "fulfilled"
         /\ scans[s].narration \in {"ctorThrows", "serviceError"} => r.value \notin {Null, ""}

\* C13 (as claimed): a narration call that rejects after the result set was
\* committed does not fail the scan: the scan ends with error null and data
\* equal to its result set.
C13_NarrationFailureHarmless ==
  \A s \in ScanIds :
    (/\ scans[s].pc = "done"
     /\ scans[s].committed
     /\ analyzeData(scans[s].narration).status = "rejected") =>
      /\ error = Null
      /\ data = scans[s].mergedResults

\* rows is ordered by the field key, descending / ascending
OrderedDesc(rows, key) ==
  \A j, k \in 1..Len(rows) :
    j < k => ~amountGT(sortValue(rows[k], key), sortValue(rows[j], key))
OrderedAsc(rows, key) ==
  \A j, k \in 1..Len(rows) :
    j < k => ~amountGT(sortValue(rows[j], key), sortValue(rows[k], key))

\* C14: a click on a column header is a three-state toggle: on the active
\* column descending becomes ascending and ascending becomes unsorted, on any
\* other column the result is descending on that column; the rows are then
\* ordered accordingly, and in the unsorted state by amount, descending.
C14_SortToggle ==
  [][sortConfig' # sortConfig =>
       /\ (sortConfig'.key = sortConfig.key /\ sortConfig.direction = "desc")
            => sortConfig'.direction = "asc"
       /\ (sortConfig'.key = sortConfig.key /\ sortConfig.direction = "asc")
            => sortConfig'.direction = Null
       /\ sortConfig'.key # sortConfig.key => sortConfig'.direction = "desc"
       /\ sortConfig'.direction = "desc" => OrderedDesc(sortedAndFilteredData', sortConfig'.key)
       /\ sortConfig'.direction = "asc" => OrderedAsc(sortedAndFilteredData', sortConfig'.key)
       /\ sortConfig'.direction = Null => OrderedDesc(sortedAndFilteredData', "latestLgns")]_vars

\* C14 witness: the unsorted state, reached by toggling a column other than the
\* amount, over a result set that is not in descending order of amount
C14_Witness ==
  /\ sortConfig.direction = Null
  /\ sortConfig.key = "level"
  /\ Len(data) > 1
  /\ ~OrderedDesc(data, "latestLgns")
  /\ Len(sortedAndFilteredData) = Len(data)

\* C15: the result set a scan commits, and data, hold at most one record per
\* account, where addresses that differ only in letter case are one account.
C15_OneRecordPerAccount ==
  /\ \A s \in ScanIds :
       scans[s].committed =>
         \A j, k \in 1..Len(scans[s].mergedResults) :
           j < k => toLowerCase(scans[s].mergedResults[j].address)
                      # toLowerCase(scans[s].mergedResults[k].address)
  /\ \A j, k \in 1..Len(data) :
       j < k => toLowerCase(data[j].address) # toLowerCase(data[k].address)

\* C15 witness: a committed result with the record of an account whose events
\* came under two spellings of its address, the larger amount last
C15_Witness ==
  \E s \in ScanIds :
    /\ scans[s].committed
    /\ \E b \in 1..Len(chain) : \E i, j \in 1..Len(chain[b]) :
         /\ i < j
         /\ chain[b][i].address = "0xA1"
         /\ chain[b][j].address = "0xa1"
         /\ amountGT(decodeAmount(chain[b][j].data), decodeAmount(chain[b][i].data))
    /\ \E k \in 1..Len(data) : data[k].address = "0xa1"

\* C16 (as claimed): when the current-height response carries neither an error
\* nor a hexadecimal result (latestBlock is NaN), the event fetch fails: the
\* scan surfaces an error and commits nothing.
C16_MalformedHeightFails ==
  \A s \in ScanIds :
    (scans[s].pc # "blockNumber" /\ scans[s].latestBlock = NaN) =>
      /\ scans[s].fetchFailed
      /\ ~scans[s].committed
      /\ error # Null

\* C17 (as claimed): the settings round-trip through the store: whenever
\* saveSettings writes them, a start of the application from the store it has
\* written initializes each of the four settings with the value that was saved.
C17_SettingsRoundTrip ==
  [][localStorage' # localStorage =>
       /\ initialRpcUrl(localStorage') = rpcUrl
       /\ initialBlockRange(localStorage') = blockRange
       /\ initialThreshold(localStorage') = threshold
       /\ initialScanChunkSize(localStorage') = scanChunkSize]_vars

\* the sum of the amounts of records, from the sums of their whole and
\* fractional parts
AmountTotal(records) ==
  LET wholes == SeqSum([k \in 1..Len(records) |-> records[k].latestLgns.whole])
      fracs == SeqSum([k \in 1..Len(records) |-> records[k].latestLgns.frac])
  IN [whole |-> wholes + (fracs \div Scale), frac |-> fracs % Scale]

\* st holds the statistics of records
StatsAreOf(st, records) ==
  /\ st.totalUsers = Len(records)
  /\ st.totalLgns = AmountTotal(records)
  /\ st.avgLevel.sum = SeqSum([k \in 1..Len(records) |-> records[k].level])
  /\ st.avgLevel.count = (IF Len(records) = 0 THEN 1 ELSE Len(records))
  /\ \A k \in 1..Len(records) : ~amountGT(records[k].latestLgns, st.peakOutput)
  /\ IF Len(records) = 0 THEN st.peakOutput = ZeroAmount
     ELSE \E k \in 1..Len(records) : records[k].latestLgns = st.peakOutput

\* C18: in every state, whatever the search text and the sort state are, the
\* statistics are those of the whole of data: the number of its records, the
\* sum and the maximum of their amounts and the sum of their levels over their
\* number, all 0 when data is empty.
C18_StatsOfData == StatsAreOf(stats, data)

\* C18 witness: statistics of a result set of several records while the search
\* text hides some of them and the table is sorted by another column
C18_Witness ==
  /\ Len(data) > 1
  /\ Len(sortedAndFilteredData) < Len(data)
  /\ sortConfig # [key |-> "latestLgns", direction |-> "desc"]
  /\ stats.totalUsers = Len(data)
  /\ stats.avgLevel.sum > 0

\* the first and the last block a range query asks for
QueryFrom(q) == parseIntRadix(q.fromBlock, 16)
QueryTo(q) == parseIntRadix(q.toBlock, 16)

\* the events the node returns for the queries that were answered with a result
AnsweredEvents(s) ==
  Flatten([k \in 1..Len(scans[s].outcomes) |->
             IF scans[s].outcomes[k] = "append"
             THEN decodeLogs(ethGetLogs(scans[s].queries[k].fromBlock, scans[s].queries[k].toBlock))
             ELSE <<>>])

FirstWithAmount(logs, addr, amount) ==
  CHOOSE j \in AccountEvents(logs, addr) :
    /\ logs[j].amount = amount
    /\ \A i \in AccountEvents(logs, addr) : i < j => logs[i].amount # amount

\* C20: the txHash kept for an account is that of the first event, in arrival
\* order, that has the account's largest amount: a later event with an equal
\* amount does not replace it. The record of the account carries that txHash.
C20_TieKeepsFirst ==
  \A s \in ScanIds :
    Processed(s) =>
      /\ \A k \in 1..Len(scans[s].rawAddressMap) :
           LET e == scans[s].rawAddressMap[k]
           IN /\ IsMaxAmount(scans[s].logs, e.addr, e.amount)
              /\ e.txHash =
                   scans[s].logs[FirstWithAmount(scans[s].logs, e.addr, e.amount)].transactionHash
      /\ \A r \in 1..Len(scans[s].mergedResults) :
           LET rec == scans[s].mergedResults[r]
           IN rec # Unsettled =>
                rec.latestTxHash =
                  scans[s].logs[FirstWithAmount(scans[s].logs, rec.address, rec.latestLgns)].transactionHash

\* C20 witness: a committed record of an account with two events of its largest
\* amount, from different transactions
C20_Witness ==
  \E s \in ScanIds :
    /\ scans[s].committed
    /\ \E i, j \in 1..Len(scans[s].logs) :
         /\ i < j
         /\ scans[s].logs[i].address = scans[s].logs[j].address
         /\ scans[s].logs[i].amount = scans[s].logs[j].amount
         /\ scans[s].logs[i].transactionHash # scans[s].logs[j].transactionHash
         /\ IsMaxAmount(scans[s].logs, scans[s].logs[i].address, scans[s].logs[i].amount)
         /\ \E r \in 1..Len(data) :
              /\ data[r].address = scans[s].logs[i].address
              /\ data[r].latestTxHash = scans[s].logs[i].transactionHash

\* ------------------------------------------------------------------- C21
\* account addr passes the threshold filter of scan s: it is not the contract
\* and the largest amount among its fetched events is at least the threshold
PassesFilter(s, addr) ==
  /\ ~IsContract(addr)
  /\ \E j \in AccountEvents(scans[s].logs, addr) :
       amountGE(scans[s].logs[j].amount, scans[s].threshold)

\* C21: nothing is retried within a scan. A scan calls fetchPolygonLogs once
\* (and never after it failed); it issues no reward lookup twice, none for the
\* contract address or an account below the threshold, none after a failed
\* fetch; and when its batches are over it has issued exactly one lookup for
\* every account that passes the threshold filter, whatever the lookups returned.
C21_NothingRetried ==
  \A s \in ScanIds :
    LET sc == scans[s]
    IN /\ sc.fetches = (IF sc.pc = "idle" THEN 0 ELSE 1)
       /\ \A j, k \in 1..Len(sc.lookups) : sc.lookups[j] = sc.lookups[k] => j = k
       /\ \A a \in Range(sc.lookups) : PassesFilter(s, a)
       /\ sc.fetchFailed => sc.lookups = <<>>
       /\ sc.committed =>
            \A j \in 1..Len(sc.logs) :
              LET a == toLowerCase(sc.logs[j].address)
              IN PassesFilter(s, a) =>
                   Cardinality({k \in 1..Len(sc.lookups) : sc.lookups[k] = a}) = 1

\* C21 witness: a committed scan that looked up an account whose lookup failed,
\* and on whose chain another account stayed below the threshold
C21_Witness ==
  \E s \in ScanIds :
    /\ scans[s].committed
    /\ \E a \in Range(scans[s].lookups) : ocros[a] \in FailureResponses
    /\ \E j \in 1..Len(scans[s].logs) :
         LET a == toLowerCase(scans[s].logs[j].address)
         IN ~IsContract(a) /\ ~PassesFilter(s, a)

\* ------------------------------------------------------------------- C22
\* C22: the phases of a scan are ordered. The narration call is made at most
\* once per scan; when it has been made, every reward batch of the scan has
\* settled (no lookup pending, one settled record per filtered account), the
\* result has been committed with setData and the event fetch did not fail; it
\* is not made before the scan is past its batches, it has been made exactly
\* once when a scan whose fetch succeeded is over, and never for a scan whose
\* event fetch failed.
C22_NarrationLast ==
  \A s \in ScanIds :
    LET sc == scans[s]
    IN /\ sc.narrations <= 1
       /\ sc.narrations = 1 =>
            /\ sc.committed /\ ~sc.fetchFailed
            /\ sc.pending = {}
            /\ Len(sc.mergedResults) = Len(sc.filteredAddresses)
            /\ \A k \in 1..Len(sc.mergedResults) : sc.mergedResults[k] # Unsettled
            /\ sc.pc \in {"analyzing", "done"}
       /\ sc.pc \in {"idle", "blockNumber", "getLogs", "rewards", "delay"} => sc.narrations = 0
       /\ sc.pc \in {"analyzing", "done"} /\ ~sc.fetchFailed => sc.narrations = 1
       /\ sc.fetchFailed => sc.narrations = 0 /\ ~sc.committed

\* C22 witness: the narration call of a scan has settled after two reward batches
C22_Witness ==
  \E s \in ScanIds :
    /\ scans[s].pc = "done"
    /\ scans[s].narrations = 1
    /\ scans[s].batches = 2
    /\ data = scans[s].mergedResults

\* ------------------------------------------------------------------- C23
\* the characters of the addresses and search texts that occur
DigitChars == <<"0", "1", "2", "3", "4", "5", "6", "7", "8", "9">>
Characters(str) ==
  CASE str = "" -> <<>>
    [] str = "0xA1" -> <<"0", "x", "A", "1">>
    [] str = "0xa1" -> <<"0", "x", "a", "1">>
    [] str = "0xB2" -> <<"0", "x", "B", "2">>
    [] str = "0xb2" -> <<"0", "x", "b", "2">>
    [] str = "0xd0" -> <<"0", "x", "d", "0">>
    [] str \in Range(LongAccountNames) ->
         LET n == CHOOSE k \in 1..Len(LongAccountNames) : LongAccountNames[k] = str
         IN <<"0", "x", "d", DigitChars[(n \div 10) + 1], DigitChars[(n % 10) + 1]>>
    [] OTHER -> <<str>>
FoldCase(c) == IF c = "A" THEN "a" ELSE IF c = "B" THEN "b" ELSE c
Folded(str) == [k \in 1..Len(Characters(str)) |-> FoldCase(Characters(str)[k])]

\* text occurs in address as a run of consecutive characters, letter case ignored
ContainsIgnoringCase(address, text) ==
  \E o \in 0..(Len(Folded(address)) - Len(Folded(text))) :
    \A k \in 1..Len(Folded(text)) : Folded(address)[o + k] = Folded(text)[k]

\* the rows are the records of data that match the search text, each once
ViewIsFilterOfData ==
  LET view == sortedAndFilteredData
      hits == {j \in 1..Len(data) : ContainsIgnoringCase(data[j].address, searchAddress)}
  IN /\ Len(view) = Cardinality(hits)
     /\ \A j \in hits : Cardinality({k \in 1..Len(view) : view[k] = data[j]}) = 1
     /\ \A k \in 1..Len(view) : \E j \in hits : view[k] = data[j]

\* C23: in every state the rows of the table are exactly the records of data
\* whose address contains the search text, letter case ignored (every record
\* when the text is empty), each once; and a step that changes the search
\* text or the sort state leaves data as it is.
C23_ViewIsFilterOfData ==
  /\ []ViewIsFilterOfData
  /\ [][(searchAddress' # searchAddress \/ sortConfig' # sortConfig) => data' = data]_vars

\* C23 witness: an upper-case search text selects one record out of several
\* and the table is sorted on another column than the initial one
C23_Witness ==
  /\ searchAddress = "0xA1"
  /\ sortConfig.key # "latestLgns"
  /\ Len(data) > 1
  /\ Len(sortedAndFilteredData) = 1
  /\ sortedAndFilteredData[1].address = "0xa1"

\* ------------------------------------------------------------------- C24
\* C24: in the component of part_000, once a scan has merged the events it
\* fetched, the amount and txHash stored for an account are those of an event of
\* the account with the largest amount, in whatever order the events arrived.
C24_MaximumKept_000 ==
  \A s \in ScanIds :
    (variant = "part_000" /\ Processed(s)) =>
      \A k \in 1..Len(scans[s].rawAddressMap) :
        LET e == scans[s].rawAddressMap[k]
        IN /\ IsMaxAmount(scans[s].logs, e.addr, e.amount)
           /\ \E j \in AccountEvents(scans[s].logs, e.addr) :
                scans[s].logs[j].amount = e.amount /\ scans[s].logs[j].transactionHash = e.txHash

\* ------------------------------------------------------------------- C25
\* scan s is between its start and its finally block
InFlight(s) == scans[s].pc \notin {"idle", "done"}

\* C25: loading is true in every state in which at least one scan is in flight,
\* overlapping scans included.
C25_LoadingWhileInFlight ==
  (\E s \in ScanIds : InFlight(s)) => loading

\* ------------------------------------------------------------------- C26
\* C26: when a scan finishes successfully (its event fetch did not fail) and
\* no other scan is in flight, error is null and data is that scan's result.
C26_ErrorIsOfLastFinished ==
  [][\A s \in ScanIds :
       (/\ InFlight(s)
        /\ scans'[s].pc = "done"
        /\ ~scans'[s].fetchFailed
        /\ \A o \in ScanIds : scans'[o].pc \in {"idle", "done"})
       => (error' = Null /\ data' = scans'[s].mergedResults)]_vars

\* ------------------------------------------------------------------- C27
\* C27: a step that changes a setting value in the form (threshold, window,
\* endpoint, chunk size) starts no scan; a scan is started with the changed
\* values only by saveSettings, which starts exactly one.
C27_OnlyApplyStartsScan ==
  [][/\ settingVars' # settingVars => started' = started
     /\ localStorage' # localStorage => started' = started + 1]_vars

C29_FetchTerminates ==
  \A s \in ScanIds :
    LET sc == scans[s]
        startBlock == startBlockOf(sc.latestBlock, sc.blockRange)
    IN /\ \A k \in 1..(Len(sc.queries) - 1) :
            QueryFrom(sc.queries[k]) < QueryFrom(sc.queries[k + 1])
       /\ Len(sc.queries) > 0 => Len(sc.queries) <= sc.latestBlock - startBlock

\* ------------------------------------------------------------------- C30
\* C30: the progress counter is consistent in every reachable state, also
\* when scans overlap: 0 <= rewardProgress.current <= rewardProgress.total.
C30_ProgressWithinTotal ==
  /\ 0 <= rewardProgress.current
  /\ rewardProgress.current <= rewardProgress.total
====
